---- MODULE Spec2Model ----
(***************************************************************************)
(* Multi-chain portfolio tracker: BalanceFetcher (balance_fetcher.py),     *)
(* PortfolioAggregator (portfolio_aggregator.py) and the get_portfolio     *)
(* request handler (main.py).                                              *)
(*                                                                         *)
(* Units.  A human-readable balance is counted in steps of 0.002 token, a  *)
(* unit price in whole dollars, so a value (price * balance) is counted in *)
(* steps of 0.002 dollar; the 2-decimal figures of a summary are counted   *)
(* in cents.  Five value steps make one cent, so no value lies exactly     *)
(* half-way between two cents.                                             *)
(*                                                                         *)
(* Python's None and an absent dictionary key are written NoneS for text   *)
(* fields and NoNumber for numeric fields; dict.get treats both alike in   *)
(* every place the program reads them.                                     *)
(***************************************************************************)
EXTENDS Integers, Sequences, FiniteSets, TLC

VARIABLES
    w3_instances,      \* BalanceFetcher.w3_instances: chain ids with a cached handle
    call,              \* the last call made directly on the BalanceFetcher
    pc,                \* get_portfolio: "idle", "gather", "done"
    request,           \* the PortfolioRequest being served
    tasks,             \* chain id of each get_wallet_tokens task, in creation order
    results,           \* outcome of each task as asyncio.gather collects it
    all_balances,      \* the flattened list handed to aggregate_portfolio
    price_oracle_url,  \* PortfolioAggregator.price_oracle_url
    balances_in,       \* the list a direct caller gives to aggregate_portfolio
    oracle_answers,    \* what the price oracle answered during the last aggregation
    portfolio,         \* the last result of aggregate_portfolio
    input_after,       \* the caller's list as the last aggregate_portfolio call left it
    first_portfolio    \* the result of the first of two calls in a row

vars == <<w3_instances, call, pc, request, tasks, results, all_balances,
          price_oracle_url, balances_in, oracle_answers, portfolio,
          input_after, first_portfolio>>

----------------------------------------------------------------------------
(* Bounds *)

MaxChains  == 2     \* longest chains list of a request
MaxTokens  == 1     \* longest tokens list of a direct get_wallet_tokens call
MaxRecords == 3     \* longest list given directly to aggregate_portfolio

----------------------------------------------------------------------------
(* Python values *)

NoneS    == "<None>"
NoNumber == -1

\* truthiness of a str-or-None value, as in `not b.get("error")`
Truthy(s) == s # NoneS /\ s # ""

RECURSIVE SumSeq(_)
SumSeq(s) == IF s = <<>> THEN 0 ELSE Head(s) + SumSeq(Tail(s))

RECURSIVE MaxSeq(_)
MaxSeq(s) == IF Len(s) = 1 THEN Head(s)
             ELSE LET m == MaxSeq(Tail(s)) IN IF Head(s) >= m THEN Head(s) ELSE m

----------------------------------------------------------------------------
(* balance_fetcher.py *)

\* BalanceFetcher.CHAIN_CONFIG
ChainConfigName(chain_id) ==
    CASE chain_id = 1     -> "Ethereum"
      [] chain_id = 56    -> "BNB Chain"
      [] chain_id = 137   -> "Polygon"
      [] chain_id = 42161 -> "Arbitrum"
      [] chain_id = 10    -> "Optimism"
      [] chain_id = 8453  -> "Base"
      [] chain_id = 43114 -> "Avalanche"
      [] OTHER            -> "Chain <id>"

ChainConfigSymbol(chain_id) ==
    CASE chain_id \in {1, 42161, 10, 8453} -> "ETH"
      [] chain_id = 56    -> "BNB"
      [] chain_id = 137   -> "MATIC"
      [] chain_id = 43114 -> "AVAX"
      [] OTHER            -> "UNKNOWN"

\* main.RPC_URLS, restricted to the chains the model serves; every entry has
\* a non-empty default URL
ConfiguredChains == {1, 56}

RpcUrl(chain_id) == IF chain_id \in ConfiguredChains THEN "https://rpc" ELSE NoneS

\* the chain identifiers of calls and requests; 999 has no entry in rpc_urls
ChainIds == ConfiguredChains \cup {999}

\* Address strings.  Each stands for a full-length string; Strip,
\* StartsWith0x and StrLen give the properties of the string it stands for.
WalletGood    == "0xd8da"       \* 42 characters, 0x prefix
WalletPadded  == " 0xd8da "     \* the same with surrounding whitespace
WalletShort   == "0xd8d"        \* 41 characters
WalletNoPfx   == "d8da6b"       \* 42 characters, no 0x prefix
TokenGood     == "0xA0b8"       \* 42 characters, 0x prefix, mixed case
TokenShort    == "0xA0b"        \* 41 characters

WalletAddresses == {WalletGood, WalletPadded, WalletShort, WalletNoPfx}
TokenAddresses  == {TokenGood, TokenShort}

Strip(a) == IF a = WalletPadded THEN WalletGood ELSE a

StartsWith0x(a) == a # WalletNoPfx

StrLen(a) == IF a \in {WalletShort, TokenShort} THEN 41
             ELSE IF a = WalletPadded THEN 44 ELSE 42

Lower(a) == CASE a = TokenGood  -> "0xa0b8"
              [] a = TokenShort -> "0xa0b"
              [] OTHER          -> a

InvalidAddressMsg == "Invalid address"
UnsupportedMsg    == "Chain not supported or failed to initialize"

NormalizePrefixOnly(address) ==
    LET a == Strip(address) IN
    IF ~StartsWith0x(a)
    THEN [raised |-> TRUE,  msg |-> InvalidAddressMsg, address |-> NoneS]
    ELSE [raised |-> FALSE, msg |-> NoneS,             address |-> a]

\* _normalize_address: raised = the ValueError
NormalizeAddress(address) ==
    LET a == Strip(address) IN
    IF ~StartsWith0x(a) \/ StrLen(a) # 42
    THEN [raised |-> TRUE,  msg |-> InvalidAddressMsg, address |-> NoneS]
    ELSE [raised |-> FALSE, msg |-> NoneS,             address |-> a]

GetW3CachesFailure(cache, chain_id, construct_ok) ==
    IF chain_id \in cache
    THEN [w3 |-> TRUE, cache |-> cache, constructed |-> FALSE]
    ELSE IF ~Truthy(RpcUrl(chain_id))
    THEN [w3 |-> FALSE, cache |-> cache, constructed |-> FALSE]
    ELSE [w3 |-> construct_ok, cache |-> cache \cup {chain_id},
          constructed |-> TRUE]

\* _get_w3: construct_ok tells whether Web3(HTTPProvider(url)) succeeds if it
\* is attempted
GetW3(cache, chain_id, construct_ok) ==
    IF chain_id \in cache
    THEN [w3 |-> TRUE, cache |-> cache, constructed |-> FALSE]
    ELSE IF ~Truthy(RpcUrl(chain_id))
    THEN [w3 |-> FALSE, cache |-> cache, constructed |-> FALSE]
    ELSE IF construct_ok
    THEN [w3 |-> TRUE, cache |-> cache \cup {chain_id}, constructed |-> TRUE]
    ELSE [w3 |-> FALSE, cache |-> cache, constructed |-> TRUE]

\* the balance dictionaries; name, decimals and the raw integer balance are
\* keys no code reads after the record is built and are left out
BalanceDict(chain_id, chain_name, token_type, symbol, balance, contract_address, error) ==
    [chain_id |-> chain_id, chain_name |-> chain_name, token_type |-> token_type,
     symbol |-> symbol, balance |-> balance,
     contract_address |-> contract_address, error |-> error]

ErrorDict(chain_id, contract_address, error) ==
    BalanceDict(chain_id, NoneS, NoneS, NoneS, NoNumber, contract_address, error)

\* what a resolution call hands to its caller: a dictionary, or an exception
Returned(dict, cache) == [raised |-> FALSE, msg |-> NoneS, dict |-> dict, cache |-> cache]
Raised(msg, cache) ==
    [raised |-> TRUE, msg |-> msg, dict |-> ErrorDict(0, NoneS, NoneS), cache |-> cache]

\* outcomes of one RPC balance query: the balance, or an exception with its text
RpcOk(v)    == [kind |-> "ok", value |-> v, msg |-> NoneS]
RpcRaise(m) == [kind |-> "raise", value |-> NoNumber, msg |-> m]

\* body of the try block of get_native_balance
NativeTry(cache, wallet_address, chain_id, env) ==
    LET g == GetW3(cache, chain_id, env.construct)
        n == NormalizeAddress(wallet_address)
    IN  IF ~g.w3 THEN Returned(ErrorDict(chain_id, NoneS, UnsupportedMsg), g.cache)
        ELSE IF n.raised THEN Raised(n.msg, g.cache)
        ELSE IF env.rpc.kind = "raise" THEN Raised(env.rpc.msg, g.cache)
        ELSE Returned(BalanceDict(chain_id, ChainConfigName(chain_id), "native",
                                  ChainConfigSymbol(chain_id), env.rpc.value,
                                  NoneS, NoneS), g.cache)

NativePropagates(cache, wallet_address, chain_id, env) ==
    NativeTry(cache, wallet_address, chain_id, env)

\* get_native_balance: the try block and its except Exception handler
GetNativeBalance(cache, wallet_address, chain_id, env) ==
    LET t == NativeTry(cache, wallet_address, chain_id, env)
    IN  IF t.raised THEN Returned(ErrorDict(chain_id, NoneS, t.msg), t.cache)
        ELSE t

\* body of the try block of get_token_balance; env.symbol is the text the
\* contract's symbol() returns, or NoneS when that call raises
TokenTry(cache, wallet_address, token_address, chain_id, env) ==
    LET g == GetW3(cache, chain_id, env.construct)
        w == NormalizeAddress(wallet_address)
        t == NormalizeAddress(token_address)
        symbol == IF env.symbol = NoneS THEN "UNKNOWN" ELSE env.symbol
    IN  IF ~g.w3 THEN Returned(ErrorDict(chain_id, NoneS, UnsupportedMsg), g.cache)
        ELSE IF w.raised THEN Raised(w.msg, g.cache)
        ELSE IF t.raised THEN Raised(t.msg, g.cache)
        ELSE IF env.rpc.kind = "raise" THEN Raised(env.rpc.msg, g.cache)
        ELSE Returned(BalanceDict(chain_id, ChainConfigName(chain_id), "erc20",
                                  symbol, env.rpc.value,
                                  Lower(token_address), NoneS), g.cache)

\* get_token_balance: the try block and its except Exception handler
GetTokenBalance(cache, wallet_address, token_address, chain_id, env) ==
    LET t == TokenTry(cache, wallet_address, token_address, chain_id, env)
    IN  IF t.raised
        THEN Returned(ErrorDict(chain_id, Lower(token_address), t.msg), t.cache)
        ELSE t

\* the loop over token_addresses of get_wallet_tokens; acc carries the
\* balances list, the cache and the dictionaries each call returned
RECURSIVE TokenLoop(_, _, _, _, _)
TokenLoop(acc, wallet_address, chain_id, token_addresses, envs) ==
    IF token_addresses = <<>> THEN acc
    ELSE LET r == GetTokenBalance(acc.cache, wallet_address, Head(token_addresses),
                                  chain_id, Head(envs))
             keep == ~Truthy(r.dict.error)
                     /\ (IF r.dict.balance = NoNumber THEN 0 ELSE r.dict.balance) > 0
         IN  TokenLoop([balances |-> IF keep THEN Append(acc.balances, r.dict)
                                     ELSE acc.balances,
                        cache    |-> r.cache,
                        calls    |-> Append(acc.calls, r.dict)],
                       wallet_address, chain_id, Tail(token_addresses), Tail(envs))

\* get_wallet_tokens; token_addresses is [none |-> BOOLEAN, list |-> sequence]
GetWalletTokens(cache, wallet_address, chain_id, token_addresses, env_native, envs) ==
    LET n == GetNativeBalance(cache, wallet_address, chain_id, env_native)
        first == [balances |-> IF ~Truthy(n.dict.error) THEN <<n.dict>> ELSE <<>>,
                  cache    |-> n.cache,
                  calls    |-> <<n.dict>>]
    IN  IF ~token_addresses.none /\ token_addresses.list # <<>>
        THEN TokenLoop(first, wallet_address, chain_id, token_addresses.list, envs)
        ELSE first

----------------------------------------------------------------------------
(* portfolio_aggregator.py *)

NativeAddr == "native"

\* _get_fallback_price: dollars per token, NoNumber for a symbol not in the table
GetFallbackPrice(symbol) ==
    CASE symbol \in {"ETH", "WETH"}  -> 3000
      [] symbol \in {"BNB", "WBNB"}  -> 600
      [] symbol = "AVAX"             -> 40
      [] symbol \in {"MATIC", "USDC", "USDT", "DAI", "WMATIC"} -> 1
      [] OTHER                       -> NoNumber

\* outcomes of one POST to the price oracle: a 200 response whose JSON has
\* price_usd (price) or lacks it (price = NoNumber), another status, or an
\* exception (timeout, transport error, undecodable body)
Oracle200(p)   == [kind |-> "200", price |-> p]
OracleNon200   == [kind |-> "non200", price |-> NoNumber]
OracleError    == [kind |-> "error", price |-> NoNumber]

OracleQueried(url, token_address) == Truthy(url) /\ token_address # NativeAddr

\* _get_token_price
GetTokenPrice(url, token_address, chain_id, symbol, oracle) ==
    IF OracleQueried(url, token_address) /\ oracle.kind = "200"
    THEN oracle.price
    ELSE GetFallbackPrice(symbol)

\* one iteration of the loop of _enrich_with_prices: the copy of the balance
\* dictionary with price_usd and value_usd added.  quoted is what
\* _get_token_price returned and asked tells whether it sent a request to the
\* oracle; both are locals of the call, kept to state properties about it
EnrichOne(url, balance, oracle) ==
    LET token_address == IF Truthy(balance.contract_address)
                         THEN balance.contract_address ELSE NativeAddr
        price_usd == GetTokenPrice(url, token_address, balance.chain_id,
                                   balance.symbol, oracle)
        has_balance == balance.balance # NoNumber /\ balance.balance # 0
    IN  IF price_usd # NoNumber /\ has_balance
        THEN [balance |-> balance, price_usd |-> price_usd,
              value_usd |-> price_usd * balance.balance,
              quoted |-> price_usd, asked |-> OracleQueried(url, token_address)]
        ELSE [balance |-> balance, price_usd |-> NoNumber, value_usd |-> 0,
              quoted |-> price_usd, asked |-> OracleQueried(url, token_address)]

\* _enrich_with_prices; oracles[i] is the oracle's answer for balances[i]
EnrichWithPrices(url, balances, oracles) ==
    [i \in 1..Len(balances) |-> EnrichOne(url, balances[i], oracles[i])]

Values(enriched) == [i \in 1..Len(enriched) |-> enriched[i].value_usd]

ValuesIgnoringType(enriched, token_type) == Values(enriched)

ValuesOfType(enriched, token_type) ==
    [i \in 1..Len(enriched) |->
        IF enriched[i].balance.token_type = token_type
        THEN enriched[i].value_usd ELSE 0]

\* position of the group with this key, 0 when there is none
GroupIndex(groups, key, field) ==
    LET hits == {i \in 1..Len(groups) : groups[i][field] = key}
    IN  IF hits = {} THEN 0 ELSE CHOOSE i \in hits : TRUE

\* chain_name default of balance.get("chain_name", f"Chain {chain_id}")
ChainNameOf(balance) ==
    IF balance.chain_name = NoneS THEN "Chain <id>" ELSE balance.chain_name

\* the by_chain loop: groups are kept in the order their key was first seen
RECURSIVE GroupByChain(_, _)
GroupByChain(groups, enriched) ==
    IF enriched = <<>> THEN groups
    ELSE LET e == Head(enriched)
             k == GroupIndex(groups, e.balance.chain_id, "chain_id")
             old == IF k = 0
                    THEN [chain_id |-> e.balance.chain_id, chain_name |-> NoneS,
                          value_usd |-> 0, tokens |-> <<>>]
                    ELSE groups[k]
             new == [chain_id   |-> e.balance.chain_id,
                     chain_name |-> ChainNameOf(e.balance),
                     value_usd  |-> old.value_usd + e.value_usd,
                     tokens     |-> Append(old.tokens,
                                        [symbol    |-> e.balance.symbol,
                                         balance   |-> e.balance.balance,
                                         value_usd |-> e.value_usd])]
         IN  GroupByChain(IF k = 0 THEN Append(groups, new)
                          ELSE [groups EXCEPT ![k] = new],
                          Tail(enriched))

SymbolKeyFolded(balance) ==
    IF balance.symbol = NoneS THEN "UNKNOWN"
    ELSE IF balance.symbol = "usdc" THEN "USDC" ELSE balance.symbol

\* balance.get("symbol", "UNKNOWN")
SymbolKey(balance) ==
    IF balance.symbol = NoneS THEN "UNKNOWN" ELSE balance.symbol

\* the by_token loop
RECURSIVE GroupByToken(_, _)
GroupByToken(groups, enriched) ==
    IF enriched = <<>> THEN groups
    ELSE LET e == Head(enriched)
             symbol == SymbolKey(e.balance)
             k == GroupIndex(groups, symbol, "symbol")
             old == IF k = 0
                    THEN [symbol |-> symbol, balance |-> 0, value_usd |-> 0,
                          chains |-> <<>>]
                    ELSE groups[k]
             new == [symbol    |-> symbol,
                     balance   |-> old.balance
                                   + (IF e.balance.balance = NoNumber THEN 0
                                      ELSE e.balance.balance),
                     value_usd |-> old.value_usd + e.value_usd,
                     chains    |-> Append(old.chains, e.balance.chain_name)]
         IN  GroupByToken(IF k = 0 THEN Append(groups, new)
                          ELSE [groups EXCEPT ![k] = new],
                          Tail(enriched))

InsertByValueUnstable(sorted, x) ==
    LET n == Cardinality({i \in 1..Len(sorted) : sorted[i].value_usd > x.value_usd})
    IN  SubSeq(sorted, 1, n) \o <<x>> \o SubSeq(sorted, n + 1, Len(sorted))

\* x placed behind every group whose value is at least its own
InsertByValue(sorted, x) ==
    LET n == Cardinality({i \in 1..Len(sorted) : sorted[i].value_usd >= x.value_usd})
    IN  SubSeq(sorted, 1, n) \o <<x>> \o SubSeq(sorted, n + 1, Len(sorted))

\* sorted(groups, key=value_usd, reverse=True): stable, descending
RECURSIVE SortedByValue(_, _)
SortedByValue(sorted, groups) ==
    IF groups = <<>> THEN sorted
    ELSE SortedByValue(InsertByValue(sorted, Head(groups)), Tail(groups))

Warning(kind, count) == [kind |-> kind, count |-> count]

\* 500 value steps are one dollar
OneDollar == 500

\* max_value / total_value > 0.9, evaluated only when total_value > 0
Concentrated(values, total_value) ==
    total_value > 0 /\ 10 * MaxSeq(values) > 9 * total_value

WarningsLowValueFirst(enriched, total_value) ==
    LET no_price_count == Cardinality({i \in 1..Len(enriched) :
                                          enriched[i].price_usd = NoNumber})
    IN  (IF total_value < OneDollar THEN <<Warning("low_value", 0)>> ELSE <<>>)
        \o (IF no_price_count > 0
            THEN <<Warning("missing_price", no_price_count)>> ELSE <<>>)
        \o (IF enriched # <<>> /\ Concentrated(Values(enriched), total_value)
            THEN <<Warning("concentration", 0)>> ELSE <<>>)

\* _generate_warnings
GenerateWarnings(enriched, total_value) ==
    LET no_price_count == Cardinality({i \in 1..Len(enriched) :
                                          enriched[i].price_usd = NoNumber})
    IN  (IF no_price_count > 0
         THEN <<Warning("missing_price", no_price_count)>> ELSE <<>>)
        \o (IF total_value < OneDollar THEN <<Warning("low_value", 0)>> ELSE <<>>)
        \o (IF enriched # <<>> /\ Concentrated(Values(enriched), total_value)
            THEN <<Warning("concentration", 0)>> ELSE <<>>)

\* round(x, 2): value steps to the nearest cent
Round2(v) == (2 * v + 5) \div 10

\* a PortfolioSummary (wallet_address and timestamp are passed through and
\* left out) together with the locals of the call that built it
Summary(total, chains_count, tokens_count, native, erc20, by_chain, by_token, warnings, enriched, lookups) ==
    [total_value_usd    |-> Round2(total),
     chains_count       |-> chains_count,
     tokens_count       |-> tokens_count,
     native_value_usd   |-> Round2(native),
     erc20_value_usd    |-> Round2(erc20),
     breakdown_by_chain |-> by_chain,
     breakdown_by_token |-> by_token,
     warnings           |-> warnings,
     total_value        |-> total,
     native_value       |-> native,
     erc20_value        |-> erc20,
     balances_with_prices |-> enriched,
     price_lookups      |-> lookups]

CreateEmptyAlwaysCounting(balances) ==
    LET errors == SelectSeq(balances, LAMBDA b : Truthy(b.error))
    IN  Summary(0, 0, 0, 0, 0, <<>>, <<>>,
                <<Warning("no_valid_balances", 0),
                  Warning("chains_failed", Len(errors))>>,
                <<>>, 0)

\* _create_empty_portfolio
CreateEmptyPortfolio(balances) ==
    LET errors == SelectSeq(balances, LAMBDA b : Truthy(b.error))
    IN  Summary(0, 0, 0, 0, 0, <<>>, <<>>,
                <<Warning("no_valid_balances", 0)>>
                \o (IF errors # <<>> THEN <<Warning("chains_failed", Len(errors))>>
                    ELSE <<>>),
                <<>>, 0)

ValidBalances(balances) == SelectSeq(balances, LAMBDA b : ~Truthy(b.error))

ChainsCountPerRecord(valid_balances) == Len(valid_balances)

\* chains_count = len(set(b["chain_id"] for b in valid_balances))
ChainsCount(valid_balances) ==
    Cardinality({valid_balances[i].chain_id : i \in 1..Len(valid_balances)})

\* the part of aggregate_portfolio after the empty-input return
AggregateValid(url, valid_balances, oracles) ==
    LET enriched == EnrichWithPrices(url, valid_balances, oracles)
        total_value == SumSeq(Values(enriched))
    IN  Summary(total_value,
                ChainsCount(valid_balances),
                Len(valid_balances),
                SumSeq(ValuesOfType(enriched, "native")),
                SumSeq(ValuesOfType(enriched, "erc20")),
                SortedByValue(<<>>, GroupByChain(<<>>, enriched)),
                SortedByValue(<<>>, GroupByToken(<<>>, enriched)),
                GenerateWarnings(enriched, total_value),
                enriched, Len(valid_balances))

\* aggregate_portfolio; oracles[i] is the oracle's answer for the i-th valid
\* balance
AggregatePortfolio(url, balances, oracles) ==
    LET valid_balances == ValidBalances(balances)
    IN  IF valid_balances = <<>> THEN CreateEmptyPortfolio(balances)
        ELSE AggregateValid(url, valid_balances, oracles)

\* The list a caller passes is a list of dictionaries that outlive the call.
\* An item is the balance dictionary together with the price_usd and value_usd
\* keys it carries (NoNumber: the key is absent).  aggregate_portfolio reads
\* only the keys of the balance dictionary.
Untouched(balances) ==
    [i \in 1..Len(balances) |->
        [balance |-> balances[i], price_usd |-> NoNumber, value_usd |-> NoNumber]]

BaseKeys(items) == [i \in 1..Len(items) |-> items[i].balance]

EnrichInPlace(url, item, oracle) ==
    LET e == EnrichOne(url, item.balance, oracle)
    IN  [balance |-> item.balance, price_usd |-> e.price_usd,
         value_usd |-> e.value_usd]

\* what one iteration of the loop of _enrich_with_prices leaves of the input
\* dictionary: balance_copy = balance.copy() and both keys are set on
\* balance_copy, so the dictionary of the caller keeps the keys it had
InputAfterEnrich(url, item, oracle) == item

\* the caller's list after aggregate_portfolio: only the dictionaries that pass
\* the filter of valid_balances go through _enrich_with_prices; oracles[k] is
\* the oracle's answer for the k-th of them
InputAfter(url, items, oracles) ==
    LET valid(i) == ~Truthy(items[i].balance.error)
        rank(i)  == Cardinality({j \in 1..i : valid(j)})
    IN  [i \in 1..Len(items) |->
            IF valid(i) THEN InputAfterEnrich(url, items[i], oracles[rank(i)])
            ELSE items[i]]

----------------------------------------------------------------------------
(* The environment: what the chain RPC and the price oracle may answer *)

ErrMsgs      == {"", "connection refused"}     \* str(e) of a raised exception
RpcBalances  == {0, 2}
RpcOutcomes  == {RpcOk(v) : v \in RpcBalances} \cup {RpcRaise(m) : m \in ErrMsgs}
SymbolOutcomes == {"USDC", "XYZ", NoneS}

NativeEnvs == [construct : BOOLEAN, rpc : RpcOutcomes]
TokenEnvs  == [construct : BOOLEAN, rpc : RpcOutcomes, symbol : SymbolOutcomes]

OraclePrices   == {250, 33000}
OracleOutcomes == {Oracle200(p) : p \in OraclePrices \cup {NoNumber}}
                  \cup {OracleNon200, OracleError}

OracleUrls == {NoneS, "https://price-oracle"}

SeqsUpTo(S, n) == UNION {[1..k -> S] : k \in 0..n}

NoTokens      == [none |-> TRUE, list |-> <<>>]
TokenLists    == {NoTokens}
                 \cup {[none |-> FALSE, list |-> l] : l \in SeqsUpTo(TokenAddresses, MaxTokens)}

NoCall == [op |-> "none"]
NoRequest == [wallet_address |-> NoneS, chains |-> <<>>, tokens |-> NoTokens]
NoPortfolio == CreateEmptyPortfolio(<<>>)

\* one answer of the oracle for each balance; a balance the oracle is not
\* asked about gets the one answer OracleError, which is never read
OracleAnswers(url, balances) ==
    {o \in [1..Len(balances) -> OracleOutcomes] :
        \A i \in 1..Len(balances) :
            ~OracleQueried(url, IF Truthy(balances[i].contract_address)
                                THEN balances[i].contract_address ELSE NativeAddr)
            => o[i] = OracleError}

----------------------------------------------------------------------------
(* FetcherSpec: calls made directly on one BalanceFetcher *)

FetcherInit ==
    /\ w3_instances = {}
    /\ call = NoCall
    /\ pc = "fetcher"
    /\ request = NoRequest
    /\ tasks = <<>>
    /\ results = <<>>
    /\ all_balances = <<>>
    /\ price_oracle_url = NoneS
    /\ balances_in = <<>>
    /\ oracle_answers = <<>>
    /\ portfolio = NoPortfolio
    /\ input_after = <<>>
    /\ first_portfolio = NoPortfolio

FetcherUnchanged ==
    UNCHANGED <<pc, request, tasks, results, all_balances, price_oracle_url,
                balances_in, oracle_answers, portfolio, input_after,
                first_portfolio>>

CallGetNativeBalance ==
    /\ pc = "fetcher" /\ call.op = "none"
    /\ \E wallet_address \in WalletAddresses, chain_id \in ChainIds, env \in NativeEnvs :
          LET r == GetNativeBalance(w3_instances, wallet_address, chain_id, env)
          IN  /\ w3_instances' = r.cache
              /\ call' = [op |-> "get_native_balance",
                          wallet_address |-> wallet_address, chain_id |-> chain_id,
                          token_addresses |-> NoTokens,
                          envs |-> <<[construct |-> env.construct, rpc |-> env.rpc,
                                      symbol |-> NoneS]>>,
                          cache_before |-> w3_instances,
                          raised |-> r.raised, calls |-> <<r.dict>>,
                          balances |-> <<>>]
    /\ FetcherUnchanged

CallGetTokenBalance ==
    /\ pc = "fetcher" /\ call.op = "none"
    /\ \E wallet_address \in WalletAddresses, token_address \in TokenAddresses,
          chain_id \in ChainIds, env \in TokenEnvs :
          LET r == GetTokenBalance(w3_instances, wallet_address, token_address,
                                   chain_id, env)
          IN  /\ w3_instances' = r.cache
              /\ call' = [op |-> "get_token_balance",
                          wallet_address |-> wallet_address, chain_id |-> chain_id,
                          token_addresses |-> [none |-> FALSE, list |-> <<token_address>>],
                          envs |-> <<env>>,
                          cache_before |-> w3_instances,
                          raised |-> r.raised, calls |-> <<r.dict>>,
                          balances |-> <<>>]
    /\ FetcherUnchanged

CallGetWalletTokens ==
    /\ pc = "fetcher" /\ call.op = "none"
    /\ \E wallet_address \in {WalletGood, WalletShort}, chain_id \in ChainIds,
          token_addresses \in TokenLists, env \in NativeEnvs :
          \E envs \in [1..Len(token_addresses.list) -> TokenEnvs] :
          LET r == GetWalletTokens(w3_instances, wallet_address, chain_id,
                                   token_addresses, env, envs)
          IN  /\ w3_instances' = r.cache
              /\ call' = [op |-> "get_wallet_tokens",
                          wallet_address |-> wallet_address, chain_id |-> chain_id,
                          token_addresses |-> token_addresses,
                          envs |-> <<[construct |-> env.construct, rpc |-> env.rpc,
                                      symbol |-> NoneS]>> \o envs,
                          cache_before |-> w3_instances,
                          raised |-> FALSE, calls |-> r.calls,
                          balances |-> r.balances]
    /\ FetcherUnchanged

\* the caller takes the result; the fetcher is ready for its next call
FetcherReturn ==
    /\ pc = "fetcher" /\ call.op # "none"
    /\ call' = NoCall
    /\ UNCHANGED w3_instances
    /\ FetcherUnchanged

FetcherNext ==
    \/ CallGetNativeBalance
    \/ CallGetTokenBalance
    \/ CallGetWalletTokens
    \/ FetcherReturn

FetcherSpec == FetcherInit /\ [][FetcherNext]_vars

----------------------------------------------------------------------------
(* AggSpec: aggregate_portfolio called directly on a list of balances *)

NativeBalance(chain_id, balance) ==
    BalanceDict(chain_id, ChainConfigName(chain_id), "native",
                ChainConfigSymbol(chain_id), balance, NoneS, NoneS)

TokenBalance(chain_id, symbol, balance) ==
    BalanceDict(chain_id, ChainConfigName(chain_id), "erc20", symbol, balance,
                Lower(TokenGood), NoneS)

\* the balance dictionaries the lists are drawn from: native and token
\* balances as the fetcher builds them, failed ones, and the dictionary of an
\* exception whose text is empty
AggRecords ==
    { NativeBalance(1, 1), NativeBalance(1, 0), NativeBalance(137, 2),
      TokenBalance(1, "USDC", 2), TokenBalance(137, "usdc", 2),
      TokenBalance(56, "XYZ", 1),
      ErrorDict(56, NoneS, "connection refused"),
      ErrorDict(1, NoneS, "") }

AggInit ==
    /\ w3_instances = {}
    /\ call = NoCall
    /\ pc = "agg_call"
    /\ request = NoRequest
    /\ tasks = <<>>
    /\ results = <<>>
    /\ all_balances = <<>>
    /\ price_oracle_url \in OracleUrls
    /\ balances_in \in SeqsUpTo(AggRecords, MaxRecords)
    /\ oracle_answers = <<>>
    /\ portfolio = NoPortfolio
    /\ input_after = <<>>
    /\ first_portfolio = NoPortfolio

CallAggregatePortfolio ==
    /\ pc = "agg_call"
    /\ \E oracles \in OracleAnswers(price_oracle_url, ValidBalances(balances_in)) :
          /\ oracle_answers' = oracles
          /\ portfolio' = AggregatePortfolio(price_oracle_url, balances_in, oracles)
          /\ input_after' = InputAfter(price_oracle_url, Untouched(balances_in), oracles)
    /\ pc' = "agg_done"
    /\ UNCHANGED <<w3_instances, call, request, tasks, results, all_balances,
                   price_oracle_url, balances_in, first_portfolio>>

\* the caller calls aggregate_portfolio again with the same list object, the
\* oracle answering as it did the first time
CallAggregateAgain ==
    /\ pc = "agg_done"
    /\ first_portfolio' = portfolio
    /\ portfolio' = AggregatePortfolio(price_oracle_url, BaseKeys(input_after),
                                       oracle_answers)
    /\ input_after' = InputAfter(price_oracle_url, input_after, oracle_answers)
    /\ pc' = "agg_twice"
    /\ UNCHANGED <<w3_instances, call, request, tasks, results, all_balances,
                   price_oracle_url, balances_in, oracle_answers>>

AggNext == CallAggregatePortfolio \/ CallAggregateAgain

AggSpec == AggInit /\ [][AggNext]_vars

----------------------------------------------------------------------------
(* Spec: one request served by get_portfolio *)

\* a request names no token or one well-formed token address
RequestTokens == {NoTokens, [none |-> FALSE, list |-> <<TokenGood>>]}

Requests ==
    [wallet_address : {WalletGood, WalletShort},
     chains : SeqsUpTo(ChainIds, MaxChains),
     tokens : RequestTokens]

\* list(RPC_URLS.keys())
RpcUrlKeys == <<1, 56>>

FlowTokenEnvs ==
    {e \in TokenEnvs : e.symbol = "USDC" /\ e.rpc # RpcRaise("")}

Pending == [kind |-> "pending", balances |-> <<>>,
            native_failed |-> FALSE, tokens_failed |-> 0, tokens_resolved |-> 0]

\* an exception leaving the task, as asyncio.gather(return_exceptions=True)
\* hands it back
TaskException == [kind |-> "exception", balances |-> <<>>,
                  native_failed |-> FALSE, tokens_failed |-> 0, tokens_resolved |-> 0]

\* the list a task returns, with how its resolution calls went
TaskList(r) ==
    [kind |-> "list", balances |-> r.balances,
     native_failed   |-> r.calls[1].error # NoneS,
     tokens_failed   |-> Cardinality({i \in 2..Len(r.calls) : r.calls[i].error # NoneS}),
     tokens_resolved |-> Cardinality({i \in 2..Len(r.calls) : r.calls[i].error = NoneS})]

Init ==
    /\ w3_instances = {}
    /\ call = NoCall
    /\ pc = "idle"
    /\ request = NoRequest
    /\ tasks = <<>>
    /\ results = <<>>
    /\ all_balances = <<>>
    /\ price_oracle_url \in OracleUrls
    /\ balances_in = <<>>
    /\ oracle_answers = <<>>
    /\ portfolio = NoPortfolio
    /\ input_after = <<>>
    /\ first_portfolio = NoPortfolio

\* get_portfolio up to the gather: chains_to_check and one task for each of
\* its entries that is a key of RPC_URLS
StartRequest ==
    /\ pc = "idle"
    /\ \E req \in Requests :
          LET chains_to_check == IF req.chains # <<>> THEN req.chains ELSE RpcUrlKeys
          IN  /\ request' = req
              /\ tasks' = SelectSeq(chains_to_check, LAMBDA c : c \in ConfiguredChains)
              /\ results' = [i \in 1..Len(tasks') |-> Pending]
    /\ pc' = "gather"
    /\ UNCHANGED <<w3_instances, call, all_balances, price_oracle_url,
                   balances_in, oracle_answers, portfolio, input_after,
                   first_portfolio>>

NextTask == CHOOSE i \in 1..Len(tasks) :
                /\ results[i].kind = "pending"
                /\ \A j \in 1..(i - 1) : results[j].kind # "pending"

\* one get_wallet_tokens task runs from start to end: nothing in it suspends,
\* so the event loop runs the tasks one after the other in creation order
RunTask ==
    /\ pc = "gather"
    /\ \E i \in 1..Len(tasks) : results[i].kind = "pending"
    /\ \E env \in NativeEnvs :
       \E envs \in [1..Len(request.tokens.list) -> FlowTokenEnvs] :
          LET r == GetWalletTokens(w3_instances, request.wallet_address,
                                   tasks[NextTask], request.tokens, env, envs)
          IN  /\ w3_instances' = r.cache
              /\ results' = [results EXCEPT ![NextTask] = TaskList(r)]
    /\ UNCHANGED <<call, pc, request, tasks, all_balances, price_oracle_url,
                   balances_in, oracle_answers, portfolio, input_after,
                   first_portfolio>>

\* a task ends with an exception that no handler inside it catches
TaskRaises ==
    /\ pc = "gather"
    /\ \E i \in 1..Len(tasks) : results[i].kind = "pending"
    /\ results' = [results EXCEPT ![NextTask] = TaskException]
    /\ UNCHANGED <<w3_instances, call, pc, request, tasks, all_balances,
                   price_oracle_url, balances_in, oracle_answers, portfolio,
                   input_after, first_portfolio>>

RECURSIVE FlattenSkippingNativeFailures(_)
FlattenSkippingNativeFailures(rs) ==
    IF rs = <<>> THEN <<>>
    ELSE IF Head(rs).kind = "exception" \/ Head(rs).native_failed
    THEN FlattenSkippingNativeFailures(Tail(rs))
    ELSE Head(rs).balances \o FlattenSkippingNativeFailures(Tail(rs))

\* the loop that flattens the gathered results
RECURSIVE Flatten(_)
Flatten(rs) ==
    IF rs = <<>> THEN <<>>
    ELSE IF Head(rs).kind = "exception" THEN Flatten(Tail(rs))
    ELSE Head(rs).balances \o Flatten(Tail(rs))

FlowOracleOutcomes == {OracleError, Oracle200(33000)}

\* get_portfolio from the end of the gather to the response
FinishRequest ==
    /\ pc = "gather"
    /\ \A i \in 1..Len(tasks) : results[i].kind # "pending"
    /\ all_balances' = Flatten(results)
    /\ \E oracles \in OracleAnswers(price_oracle_url, ValidBalances(all_balances')) :
          /\ \A i \in 1..Len(oracles) : oracles[i] \in FlowOracleOutcomes
          /\ oracle_answers' = oracles
          /\ portfolio' = AggregatePortfolio(price_oracle_url, all_balances', oracles)
    /\ pc' = "done"
    /\ UNCHANGED <<w3_instances, call, request, tasks, results,
                   price_oracle_url, balances_in, input_after, first_portfolio>>

Next == StartRequest \/ RunTask \/ TaskRaises \/ FinishRequest

Spec == Init /\ [][Next]_vars

----------------------------------------------------------------------------
(* Claims about the BalanceFetcher and the request flow *)

\* the elements of s at the positions in I, in the order of s
SubSeqAt(s, I) ==
    [k \in 1..Cardinality(I) |->
        s[CHOOSE i \in I : Cardinality({j \in I : j < i}) = k - 1]]

\* a chain's resolution failed: its task raised, or every resolution call of
\* the task returned an error dictionary
ChainFailed(i) ==
    \/ results[i].kind = "exception"
    \/ (results[i].kind = "list" /\ results[i].native_failed
        /\ results[i].tokens_resolved = 0)

\* C1: when the request is finished, the list handed to aggregate_portfolio
\* holds the records of every task that returned a list, in task order, and a
\* chain whose resolution failed contributes no record to it.
Claim_C1 ==
    pc = "done" =>
        /\ all_balances = Flatten(results)
        /\ \A i \in 1..Len(results) :
              ChainFailed(i) => results[i].balances = <<>>

\* C2: get_wallet_tokens returns exactly the native dictionary if the native
\* resolution did not error, followed by the dictionary of each listed token
\* whose resolution did not error and whose balance is above zero.
Claim_C2 ==
    call.op = "get_wallet_tokens" =>
        call.balances =
            SubSeqAt(call.calls,
                     {i \in 1..Len(call.calls) :
                         /\ call.calls[i].error = NoneS
                         /\ (i = 1 \/ call.calls[i].balance > 0)})

\* the handle lookup of the last direct call found no handle: no cached one,
\* and no endpoint or a failed construction
HandleUnavailable ==
    /\ call.chain_id \notin call.cache_before
    /\ (call.chain_id \notin ConfiguredChains \/ ~call.envs[1].construct)

AddressesWellFormed ==
    /\ call.wallet_address \in {WalletGood, WalletPadded}
    /\ \A i \in 1..Len(call.token_addresses.list) :
          call.token_addresses.list[i] = TokenGood

\* C3: get_native_balance and get_token_balance never raise; with no handle
\* they return a dictionary with the requested chain_id and the 'not supported
\* or failed to initialize' error, and when the balance query raises they
\* return a dictionary with the requested chain_id and an error key holding
\* the exception's text.
Thm_C3 ==
    call.op \in {"get_native_balance", "get_token_balance"} =>
        /\ ~call.raised
        /\ HandleUnavailable =>
              /\ call.calls[1].chain_id = call.chain_id
              /\ call.calls[1].error = UnsupportedMsg
        /\ (~HandleUnavailable /\ AddressesWellFormed
            /\ call.envs[1].rpc.kind = "raise") =>
              /\ call.calls[1].chain_id = call.chain_id
              /\ call.calls[1].error = call.envs[1].rpc.msg
              /\ call.calls[1].error # NoneS
              /\ call.calls[1].token_type = NoneS

Wit_C3 ==
    /\ call.op = "get_token_balance"
    /\ ~HandleUnavailable /\ AddressesWellFormed
    /\ call.envs[1].rpc.kind = "raise"
    /\ call.calls[1].error = "connection refused"
    /\ call.calls[1].chain_id = 56

----------------------------------------------------------------------------
(* Claims about aggregate_portfolio *)

AggDone == pc = "agg_done"

\* positions of the input records that carry no error text
ValidPositions == {i \in 1..Len(balances_in) : balances_in[i].error \in {NoneS, ""}}

FailedPositions == (1..Len(balances_in)) \ ValidPositions

Enriched == portfolio.balances_with_prices

HasWarning(kind) == \E k \in 1..Len(portfolio.warnings) : portfolio.warnings[k].kind = kind

WarningCount(kind) ==
    Cardinality({k \in 1..Len(portfolio.warnings) : portfolio.warnings[k].kind = kind})

GroupValues(groups) == [k \in 1..Len(groups) |-> groups[k].value_usd]

Abs(x) == IF x < 0 THEN -x ELSE x

\* C4: when every valid record is native or erc20, the total is the native
\* subtotal plus the erc20 subtotal (in the 2-decimal figures: up to one cent
\* of rounding), and every valid record with a value is of exactly one of the
\* two kinds.
Thm_C4 ==
    (AggDone /\ \A i \in ValidPositions :
                    balances_in[i].token_type \in {"native", "erc20"}) =>
        /\ portfolio.total_value = portfolio.native_value + portfolio.erc20_value
        /\ Abs(portfolio.total_value_usd
               - (portfolio.native_value_usd + portfolio.erc20_value_usd)) <= 1
        /\ portfolio.total_value = SumSeq(Values(Enriched))
        /\ portfolio.total_value_usd = Round2(portfolio.total_value)
        /\ portfolio.native_value_usd = Round2(portfolio.native_value)
        /\ portfolio.erc20_value_usd = Round2(portfolio.erc20_value)

Wit_C4 ==
    /\ AggDone
    /\ \A i \in ValidPositions : balances_in[i].token_type \in {"native", "erc20"}
    /\ portfolio.native_value > 0 /\ portfolio.erc20_value > 0
    /\ portfolio.total_value_usd
         # portfolio.native_value_usd + portfolio.erc20_value_usd

\* the enriched records whose chain is that of the group, as the group's
\* tokens list shows them
TokensOfChain(g) ==
    LET I == {i \in 1..Len(Enriched) : Enriched[i].balance.chain_id = g.chain_id}
        picked == SubSeqAt(Enriched, I)
    IN  [k \in 1..Len(picked) |->
            [symbol |-> picked[k].balance.symbol,
             balance |-> picked[k].balance.balance,
             value_usd |-> picked[k].value_usd]]

\* the chain names of the enriched records whose symbol is that of the group
ChainsOfSymbol(g) ==
    LET I == {i \in 1..Len(Enriched) :
                 \/ Enriched[i].balance.symbol = g.symbol
                 \/ (Enriched[i].balance.symbol = NoneS /\ g.symbol = "UNKNOWN")}
        picked == SubSeqAt(Enriched, I)
    IN  [k \in 1..Len(picked) |-> picked[k].balance.chain_name]

\* C5: the group values of each breakdown add up to the total value; the
\* records folded are exactly the input records without error text; each is
\* in the one chain group of its chain_id and in the one token group of its
\* symbol, spelt as it is.
Thm_C5 ==
    AggDone =>
        LET by_chain == portfolio.breakdown_by_chain
            by_token == portfolio.breakdown_by_token
        IN  /\ SumSeq(GroupValues(by_chain)) = portfolio.total_value
            /\ SumSeq(GroupValues(by_token)) = portfolio.total_value
            /\ [i \in 1..Len(Enriched) |-> Enriched[i].balance]
                   = SubSeqAt(balances_in, ValidPositions)
            /\ \A a, b \in 1..Len(by_chain) :
                   a # b => by_chain[a].chain_id # by_chain[b].chain_id
            /\ \A a, b \in 1..Len(by_token) :
                   a # b => by_token[a].symbol # by_token[b].symbol
            /\ \A a \in 1..Len(by_chain) : by_chain[a].tokens = TokensOfChain(by_chain[a])
            /\ \A a \in 1..Len(by_token) : by_token[a].chains = ChainsOfSymbol(by_token[a])
            /\ SumSeq([a \in 1..Len(by_chain) |-> Len(by_chain[a].tokens)])
                   = Cardinality(ValidPositions)
            /\ SumSeq([a \in 1..Len(by_token) |-> Len(by_token[a].chains)])
                   = Cardinality(ValidPositions)

Wit_C5 ==
    /\ AggDone
    /\ FailedPositions # {}
    /\ portfolio.total_value > 0
    /\ \E a, b \in 1..Len(portfolio.breakdown_by_token) :
          /\ portfolio.breakdown_by_token[a].symbol = "USDC"
          /\ portfolio.breakdown_by_token[b].symbol = "usdc"

\* position in the enriched list of the first record of a chain, of a symbol
FirstOfChain(chain_id) ==
    CHOOSE i \in 1..Len(Enriched) :
        /\ Enriched[i].balance.chain_id = chain_id
        /\ \A j \in 1..(i - 1) : Enriched[j].balance.chain_id # chain_id

SymbolOf(e) == IF e.balance.symbol = NoneS THEN "UNKNOWN" ELSE e.balance.symbol

FirstOfSymbol(symbol) ==
    CHOOSE i \in 1..Len(Enriched) :
        /\ SymbolOf(Enriched[i]) = symbol
        /\ \A j \in 1..(i - 1) : SymbolOf(Enriched[j]) # symbol

\* C6: each breakdown is in non-increasing order of group value, and groups of
\* equal value are in the order in which their key first occurs in the input.
Thm_C6 ==
    AggDone =>
        LET by_chain == portfolio.breakdown_by_chain
            by_token == portfolio.breakdown_by_token
        IN  /\ \A a, b \in 1..Len(by_chain) :
                  a < b =>
                     /\ by_chain[a].value_usd >= by_chain[b].value_usd
                     /\ by_chain[a].value_usd = by_chain[b].value_usd
                          => FirstOfChain(by_chain[a].chain_id)
                               < FirstOfChain(by_chain[b].chain_id)
            /\ \A a, b \in 1..Len(by_token) :
                  a < b =>
                     /\ by_token[a].value_usd >= by_token[b].value_usd
                     /\ by_token[a].value_usd = by_token[b].value_usd
                          => FirstOfSymbol(by_token[a].symbol)
                               < FirstOfSymbol(by_token[b].symbol)

Wit_C6 ==
    /\ AggDone
    /\ Len(portfolio.breakdown_by_chain) = 3
    /\ portfolio.breakdown_by_chain[1].value_usd > portfolio.breakdown_by_chain[2].value_usd
    /\ portfolio.breakdown_by_chain[2].value_usd = portfolio.breakdown_by_chain[3].value_usd
    /\ portfolio.breakdown_by_chain[3].value_usd > 0
    /\ \E a \in 1..2 : portfolio.breakdown_by_token[a].value_usd
                         = portfolio.breakdown_by_token[a + 1].value_usd

\* C7: with no valid record in the input the summary has zero totals and
\* counts, empty breakdowns, the 'no valid balances' warning first, then the
\* number of failed records exactly when there is one, and no price was
\* looked up.
Thm_C7 ==
    (AggDone /\ ValidPositions = {}) =>
        /\ portfolio.total_value_usd = 0
        /\ portfolio.native_value_usd = 0
        /\ portfolio.erc20_value_usd = 0
        /\ portfolio.chains_count = 0
        /\ portfolio.tokens_count = 0
        /\ portfolio.breakdown_by_chain = <<>>
        /\ portfolio.breakdown_by_token = <<>>
        /\ portfolio.warnings =
              IF FailedPositions = {}
              THEN <<Warning("no_valid_balances", 0)>>
              ELSE <<Warning("no_valid_balances", 0),
                     Warning("chains_failed", Cardinality(FailedPositions))>>
        /\ portfolio.price_lookups = 0
        /\ Enriched = <<>>

Wit_C7 ==
    /\ AggDone
    /\ ValidPositions = {}
    /\ Cardinality(FailedPositions) = 2
    /\ Len(portfolio.warnings) = 2

OracleConfigured == price_oracle_url \notin {NoneS, ""}

\* the oracle gave no price for the i-th valid record
NoOraclePrice(i) ==
    \/ ~Enriched[i].asked
    \/ oracle_answers[i].kind # "200"
    \/ oracle_answers[i].price = NoNumber

\* C8: the oracle is asked only for non-native records and only when its URL
\* is configured; whenever it gives no price the fallback table decides, so a
\* symbol of the table always gets a price and the price is absent only for a
\* symbol outside the table; a price the oracle gives is the price.
Claim_C8 ==
    AggDone =>
        \A i \in 1..Len(Enriched) :
            /\ Enriched[i].asked <=>
                  (OracleConfigured /\ Enriched[i].balance.contract_address # NoneS)
            /\ NoOraclePrice(i) =>
                  Enriched[i].quoted = GetFallbackPrice(Enriched[i].balance.symbol)
            /\ ~NoOraclePrice(i) => Enriched[i].quoted = oracle_answers[i].price

\* the valid records for which no price could be resolved
Unpriced == {i \in 1..Len(Enriched) : Enriched[i].quoted = NoNumber}

\* C9: a record with a resolved price carries that price and the value
\* price * balance; price_usd is absent, and the value 0, exactly for the
\* records without a resolved price; the missing-price warning is present
\* exactly when there is such a record and counts them; those records still
\* count in tokens_count and appear in the breakdowns.
Claim_C9 ==
    (AggDone /\ ValidPositions # {}) =>
        /\ \A i \in 1..Len(Enriched) :
              /\ Enriched[i].quoted # NoNumber =>
                    /\ Enriched[i].price_usd = Enriched[i].quoted
                    /\ Enriched[i].value_usd
                         = Enriched[i].quoted * Enriched[i].balance.balance
              /\ Enriched[i].price_usd = NoNumber <=> Enriched[i].quoted = NoNumber
              /\ Enriched[i].price_usd = NoNumber => Enriched[i].value_usd = 0
        /\ HasWarning("missing_price") <=> Unpriced # {}
        /\ \A k \in 1..Len(portfolio.warnings) :
              portfolio.warnings[k].kind = "missing_price"
                 => portfolio.warnings[k].count = Cardinality(Unpriced)
        /\ portfolio.tokens_count = Cardinality(ValidPositions)
        /\ SumSeq([a \in 1..Len(portfolio.breakdown_by_chain) |->
                      Len(portfolio.breakdown_by_chain[a].tokens)])
              = Cardinality(ValidPositions)

WarningRank(kind) ==
    CASE kind = "missing_price" -> 1
      [] kind = "low_value"     -> 2
      [] kind = "concentration" -> 3
      [] OTHER                  -> 0

\* C10: with a valid record in the input, the warnings are the missing-price,
\* low-value and concentration notices, each at most once and in that order;
\* the low-value notice is there exactly when the total value is below one
\* dollar, the concentration notice exactly when the total value is above 0
\* and the largest record value is more than 90% of it.
Thm_C10 ==
    (AggDone /\ ValidPositions # {}) =>
        LET w == portfolio.warnings
            total == SumSeq([i \in 1..Len(Enriched) |-> Enriched[i].value_usd])
            largest == CHOOSE v \in {Enriched[i].value_usd : i \in 1..Len(Enriched)} :
                          \A i \in 1..Len(Enriched) : Enriched[i].value_usd <= v
        IN  /\ \A k \in 1..Len(w) : WarningRank(w[k].kind) > 0
            /\ \A j, k \in 1..Len(w) :
                  j < k => WarningRank(w[j].kind) < WarningRank(w[k].kind)
            /\ HasWarning("low_value") <=> total < 500
            /\ HasWarning("concentration") <=> (total > 0 /\ 10 * largest > 9 * total)

Wit_C10 ==
    /\ AggDone
    /\ Len(Enriched) = 2
    /\ Enriched[1].value_usd = 3000 /\ Enriched[2].value_usd = 33000
    /\ portfolio.warnings = <<Warning("concentration", 0)>>


\* C11: chains_count is the number of distinct chain identifiers among the
\* input records without error text, tokens_count is the number of those
\* records, and chains_count is the number of groups of breakdown_by_chain.
Thm_C11 ==
    AggDone =>
        /\ portfolio.chains_count
             = Cardinality({balances_in[i].chain_id : i \in ValidPositions})
        /\ portfolio.tokens_count = Cardinality(ValidPositions)
        /\ portfolio.chains_count = Len(portfolio.breakdown_by_chain)

Wit_C11 ==
    /\ AggDone
    /\ FailedPositions # {}
    /\ portfolio.chains_count = 1
    /\ portfolio.tokens_count = 2
    /\ \E i \in 1..Len(Enriched) : Enriched[i].price_usd = NoNumber


AggTwice == pc = "agg_twice"

----------------------------------------------------------------------------
(* Claims about malformed addresses *)

SingleResolution == call.op \in {"get_native_balance", "get_token_balance"}

----------------------------------------------------------------------------
(* Claims about the connection cache *)

\* the single handle lookup of the last direct resolution call returned no handle
LookupUnavailable == call.calls[1].error = UnsupportedMsg

\* C15: the cache only holds chains with a configured endpoint and never loses
\* an entry; a lookup for a chain without endpoint is unavailable and caches
\* nothing; a failed construction leaves the cache as it was, so a later lookup
\* constructs again and, if that succeeds, caches the handle; a lookup for a
\* cached chain returns the handle without constructing, whatever a
\* construction would do.
Thm_C15 ==
    /\ w3_instances \subseteq ConfiguredChains
    /\ call.op # "none" =>
          /\ call.cache_before \subseteq w3_instances
          /\ w3_instances \ call.cache_before \subseteq {call.chain_id}
    /\ SingleResolution =>
          /\ call.chain_id \notin ConfiguredChains =>
                LookupUnavailable /\ w3_instances = call.cache_before
          /\ (call.chain_id \in ConfiguredChains \ call.cache_before
              /\ ~call.envs[1].construct) =>
                LookupUnavailable /\ w3_instances = call.cache_before
          /\ (call.chain_id \in ConfiguredChains \ call.cache_before
              /\ call.envs[1].construct) =>
                /\ ~LookupUnavailable
                /\ w3_instances = call.cache_before \cup {call.chain_id}
          /\ call.chain_id \in call.cache_before =>
                ~LookupUnavailable /\ w3_instances = call.cache_before

Wit_C15 ==
    /\ call.op = "get_native_balance"
    /\ call.chain_id \in call.cache_before
    /\ call.cache_before = {1, 56}
    /\ ~call.envs[1].construct
    /\ call.envs[1].rpc.kind = "ok"
    /\ call.calls[1].error = NoneS
    /\ call.calls[1].token_type = "native"


----------------------------------------------------------------------------
(* Claims about the records get_wallet_tokens returns *)

FullyPopulated(b) ==
    /\ b.token_type \in {"native", "erc20"}
    /\ b.symbol # NoneS
    /\ b.chain_name # NoneS
    /\ b.balance # NoNumber

\* C18: every record get_wallet_tokens returns has a token_type native or
\* erc20, a symbol, a chain_name and a numeric balance, whatever the RPC calls
\* did, an exception with an empty message included.
Claim_C18 ==
    call.op = "get_wallet_tokens" =>
        \A i \in 1..Len(call.balances) : FullyPopulated(call.balances[i])


----------------------------------------------------------------------------
(* Claims about the request flow *)

Done == pc = "done"

\* positions of all_balances that aggregate_portfolio takes as valid
CountedPositions ==
    {k \in 1..Len(all_balances) : all_balances[k].error \in {NoneS, ""}}

CountedChains == {all_balances[k].chain_id : k \in CountedPositions}

\* C14: when the request is finished, every requested chain whose resolution
\* failed has a record with an error text in the list given to
\* aggregate_portfolio, and when every requested chain failed the summary
\* carries the warning that counts the failed chains.
Claim_C14 ==
    Done =>
        /\ \A i \in 1..Len(tasks) :
              ChainFailed(i) =>
                  \E k \in 1..Len(all_balances) :
                      /\ all_balances[k].chain_id = tasks[i]
                      /\ Truthy(all_balances[k].error)
        /\ (tasks # <<>> /\ \A i \in 1..Len(tasks) : ChainFailed(i)) =>
              HasWarning("chains_failed")

\* positions of the token records in the list task i returned
TokenRecords(i) ==
    {k \in 1..Len(results[i].balances) :
        results[i].balances[k].token_type = "erc20"}

\* the native resolution of task i failed and its dictionary was left out
NativeLeftOut(i) ==
    /\ results[i].kind = "list"
    /\ results[i].native_failed
    /\ \A k \in 1..Len(results[i].balances) :
          results[i].balances[k].token_type # NoneS

\* C16 as stated: a chain whose native resolution failed in every task that
\* resolved it has no record among those chains_count and tokens_count count.
Claim_C16 ==
    Done =>
        \A c \in ConfiguredChains :
            (/\ \E i \in 1..Len(tasks) : tasks[i] = c
             /\ \A i \in 1..Len(tasks) : tasks[i] = c => NativeLeftOut(i))
            => c \notin CountedChains

\* C16 amended: when the native resolution of a chain fails, each token
\* resolution on that chain that succeeded with a positive balance still puts
\* its record in the list: the chain is counted in chains_count and each such
\* record in tokens_count.
Thm_C16 ==
    Done =>
        /\ portfolio.chains_count = Cardinality(CountedChains)
        /\ portfolio.tokens_count = Cardinality(CountedPositions)
        /\ \A i \in 1..Len(tasks) :
              (results[i].kind = "list" /\ results[i].native_failed) =>
                  \A k \in TokenRecords(i) :
                      /\ tasks[i] \in CountedChains
                      /\ \E n \in CountedPositions :
                            all_balances[n] = results[i].balances[k]

Wit_C16 ==
    /\ Done
    /\ Len(tasks) = 1
    /\ NativeLeftOut(1)
    /\ TokenRecords(1) # {}
    /\ portfolio.chains_count = 1
    /\ portfolio.tokens_count = 1
    /\ portfolio.total_value > 0

\* C17: when the request is finished, the list given to aggregate_portfolio
\* holds at most one native record for each chain identifier, whatever the
\* chains list of the request.
Claim_C17 ==
    Done =>
        \A c \in ConfiguredChains :
            Cardinality({k \in 1..Len(all_balances) :
                            /\ all_balances[k].chain_id = c
                            /\ all_balances[k].token_type = "native"}) <= 1

====
